---- MODULE Spec2Model ----
(***************************************************************************)
(* The runtime host of thegraph-runtime (src/thegraph-runtime/src/host.rs) *)
(* as a state machine: RuntimeHostBuilder::build / RuntimeHost::new with   *)
(* its subscription loop, the tasks spawned per subscription, the outbound *)
(* channel of RuntimeHostEvents and EventProducer::take_event_stream; and   *)
(* the mock query server (src/thegraph/src/mock/server.rs): query_stream,  *)
(* serve, and the GraphQLService that answers each HTTP request.           *)
(*                                                                         *)
(* Option<T> values are sequences of length <= 1: <<>> is None and <<x>>   *)
(* is Some(x).                                                             *)
(***************************************************************************)
EXTENDS Integers, Sequences, FiniteSets, TLC

----------------------------------------------------------------------------
(* Bounds of the model.                                                    *)

\* hosts the builder is asked to build
MaxHosts == 1
\* event handlers declared on one data set
MaxHandlers == 2
\* chain events the adapter delivers in one run
MaxChainEvents == 3
\* take_event_stream() calls on one host
MaxTakes == 3
\* emissions of one module in the specification of independent hosts
MaxPairEmits == 1
\* events a consumer reads from one host's stream when two hosts run
MaxPairReads == 2
\* query_stream() calls on the server
MaxQueryStreams == 2
\* serve() calls on the server
MaxServes == 2
\* HTTP requests the server receives
MaxRequests == 3
\* emissions beyond a saturated outbound channel
ExtraEmits == 1
\* leading emissions whose event the module chooses freely
MaxVariedEmits == 2

(* Program constants.                                                      *)

\* host.rs:86  channel(100)
OutputBuffer == 100
\* host.rs:156 BlockNumberRange { from: Some(0), .. }
RangeFrom == 0

\* the hosts of the single-builder specifications
Hosts == 1..MaxHosts
\* the hosts of the specification of independent hosts: one more
HostSlots == 1..(MaxHosts + 1)
Regs == 1..((MaxHosts + 1) * MaxHandlers)
\* a query channel per query_stream() call that creates one
Channels == 1..MaxQueryStreams

None == <<>>
Some(x) == <<x>>

----------------------------------------------------------------------------
(* Inputs: data source definitions handed to build().                      *)

EventSignatures == {"Transfer", "Approval"}
AddressStrings == {"00a1", "zz"}

HandlerLists ==
    UNION {[1..n -> EventSignatures] : n \in 0..MaxHandlers}

DataSets ==
    {[address |-> a, event_handlers |-> hs] :
        a \in AddressStrings, hs \in HandlerLists}

DataSourceDefinitions ==
    {[datasets |-> <<>>]} \cup {[datasets |-> <<d>>] : d \in DataSets}

\* the definition the sink specification builds its host from
SinkDefinition ==
    [datasets |-> <<[address |-> "00a1", event_handlers |-> <<"Transfer">>]>>]

\* Address::from_str: Ok(address) for a hex string, Err otherwise
AddressFromStr(s) ==
    IF s = "00a1" THEN [ok |-> TRUE, address |-> 161]
                  ELSE [ok |-> FALSE, address |-> 0]

\* what a careless unwrap_or_default would hand out for an empty list
DefaultDataSet == [address |-> "00a1", event_handlers |-> <<>>]

FirstOrDefault(s) == IF s = <<>> THEN Some(DefaultDataSet) ELSE Some(Head(s))

\* datasets.first()
First(s) == IF s = <<>> THEN None ELSE Some(Head(s))

\* a parse that accepts every string
AddressFromStrLenient(s) == [ok |-> TRUE, address |-> 161]

\* Address::from_str(dataset.data.address.as_str()) as subscribe_to_events uses it
ParseContractAddress(s) == AddressFromStr(s)

\* Uuid::new_v4().simple().to_string(): the n-th identifier drawn is unlike
\* the ones drawn before it
NewV4(n) == n + 1

\* the subscriptions prepared for the handlers, in declaration order
PrepareOnePerSignature(handlers, address, n) ==
    LET keep == {i \in 1..Len(handlers) :
                    \A j \in 1..(i - 1) : handlers[j] /= handlers[i]}
        F[i \in 0..Len(handlers)] ==
            IF i = 0 THEN <<>>
            ELSE IF i \in keep
                 THEN Append(F[i - 1],
                        [subscription_id |-> NewV4(n + Len(F[i - 1])),
                         address |-> address,
                         event_signature |-> handlers[i],
                         range |-> [from |-> Some(RangeFrom), to |-> None]])
                 ELSE F[i - 1]
    IN F[Len(handlers)]

\* a data set without handlers given one subscription to every event
PrepareWithCatchAll(handlers, address, n) ==
    LET hs == IF handlers = <<>> THEN <<"*">> ELSE handlers
    IN [i \in 1..Len(hs) |->
          [subscription_id |-> NewV4(n + i - 1),
           address |-> address,
           event_signature |-> hs[i],
           range |-> [from |-> Some(RangeFrom), to |-> None]]]

PrepareSubscriptions(handlers, address, n) ==
    [i \in 1..Len(handlers) |->
        [subscription_id |-> NewV4(n + i - 1),
         address |-> address,
         event_signature |-> handlers[i],
         range |-> [from |-> Some(RangeFrom), to |-> None]]]

\* EthereumAdapter::subscribe_to_event: the adapter records the filter
AdapterSubscribe(reg, subscription) == Append(reg, subscription)

\* Option::take on self.output
OptionPeek(o) == [result |-> o, rest |-> o]

OptionTake(o) == [result |-> o, rest |-> None]

\* a MutexGuard that the spawned task would keep
GuardMovedIntoTask(lock) == "task"

\* the MutexGuard of lines 173-176 is a temporary: it is dropped, and the
\* Mutex unlocked, at the end of the statement, before the task is spawned
GuardAfterStatement(lock) == "free"

\* the closure run for each chain event: it logs the event and returns Ok(())
HandlerClosure(inv, r, event) == inv

----------------------------------------------------------------------------
(* futures::sync::mpsc::channel(buffer): a sender that is not parked may   *)
(* always enqueue; it is parked when, after its message, more than buffer  *)
(* messages are pending, and unparked when the receiver takes a message.   *)
(* The capacity is therefore buffer + number of senders.                   *)

SenderSendUnbounded(q, msg) == [queue |-> Append(q, msg), parked |-> FALSE]

\* a send that skips a message equal to the newest pending one
SenderSendDedup(q, msg) ==
    IF q /= <<>> /\ q[Len(q)] = msg
    THEN [queue |-> q, parked |-> Len(q) > OutputBuffer]
    ELSE [queue |-> Append(q, msg), parked |-> Len(q) + 1 > OutputBuffer]

SenderSendDropNewest(q, msg) ==
    IF Len(q) >= OutputBuffer THEN [queue |-> q, parked |-> FALSE]
                              ELSE [queue |-> Append(q, msg), parked |-> FALSE]

SenderSend(q, msg) ==
    [queue |-> Append(q, msg), parked |-> Len(q) + 1 > OutputBuffer]

ReceiverNext(q) == [item |-> Head(q), queue |-> Tail(q)]

----------------------------------------------------------------------------
VARIABLES
    hostState,     \* per host: "none", "constructing", "alive", "panicked", "dropped"
    config,        \* per host: RuntimeHostConfig.data_source_definition
    output,        \* per host: RuntimeHost.output, Option<Receiver>
    takeLog,       \* per host: the results of its take_event_stream() calls
    stream,        \* per host: who holds the Receiver: "none", "host", "consumer", "dropped"
    streamEnded,   \* per host: the consumer has seen end-of-stream
    senderAlive,   \* per host: the module still holds event_sink
    queue,         \* per host: events pending in the outbound channel
    parked,        \* per host: the Sender is parked
    written,       \* per host: events the channel accepted from the module
    consumed,      \* per host: events the consumer read
    invocations,   \* per host: invocations of its WasmiModule
    building,      \* the host RuntimeHost::new is constructing, 0 if none
    pc,            \* where RuntimeHost::new stands: "idle", "prepare", "subscribe", "locked"
    subscriptions, \* the Vec prepared by subscribe_to_events, not yet registered
    uuidCount,     \* identifiers drawn so far
    registered,    \* chain adapter: the subscriptions it received, in order
    registeredBy,  \* the host that made each registration
    spawned,       \* registrations whose for_each task is spawned
    inbound,       \* per registration: chain events waiting in its stream
    handledLog,    \* per registration: events its task has handled
    chainClock,    \* chain events delivered so far
    watcherLock,   \* the adapter's Mutex: "free", "new" (held by RuntimeHost::new),
                   \* "task" (held by a subscription task), "poisoned"
    query_sink,     \* MockGraphQLServer.query_sink, Option<Sender> (the channel)
    queryStreamLog, \* the results of the query_stream() calls, in order
    serveLog,       \* the results of the serve() calls, in order
    tasks,          \* the server tasks serve() created: sink and state
    receivers,      \* per query channel: who holds its Receiver
    queryQueue,     \* per query channel: the Queries pending
    placed,         \* per query channel: every Query it accepted, in order
    requests,       \* the HTTP requests GraphQLService::call received
    responses       \* the HTTP responses written, in order

hostVars == <<hostState, config, output, takeLog, invocations>>
chanVars == <<stream, streamEnded, senderAlive, queue, parked, written, consumed>>
buildVars == <<building, pc, subscriptions, uuidCount>>
adapterVars == <<registered, registeredBy, spawned, inbound, handledLog, chainClock,
                 watcherLock>>
serverVars == <<query_sink, queryStreamLog, serveLog, tasks, receivers,
                queryQueue, placed, requests, responses>>
hostSideVars == <<hostVars, chanVars, buildVars, adapterVars>>
vars == <<hostVars, chanVars, buildVars, adapterVars, serverVars>>

Init ==
    /\ hostState = [h \in HostSlots |-> "none"]
    /\ config = [h \in HostSlots |-> [datasets |-> <<>>]]
    /\ output = [h \in HostSlots |-> None]
    /\ takeLog = [h \in HostSlots |-> <<>>]
    /\ stream = [h \in HostSlots |-> "none"]
    /\ streamEnded = [h \in HostSlots |-> FALSE]
    /\ senderAlive = [h \in HostSlots |-> FALSE]
    /\ queue = [h \in HostSlots |-> <<>>]
    /\ parked = [h \in HostSlots |-> FALSE]
    /\ written = [h \in HostSlots |-> <<>>]
    /\ consumed = [h \in HostSlots |-> <<>>]
    /\ invocations = [h \in HostSlots |-> <<>>]
    /\ building = 0
    /\ pc = "idle"
    /\ subscriptions = <<>>
    /\ uuidCount = 0
    /\ registered = <<>>
    /\ registeredBy = <<>>
    /\ spawned = {}
    /\ inbound = [r \in Regs |-> <<>>]
    /\ handledLog = [r \in Regs |-> <<>>]
    /\ chainClock = 0
    /\ watcherLock = "free"
    /\ query_sink = None
    /\ queryStreamLog = <<>>
    /\ serveLog = <<>>
    /\ tasks = <<>>
    /\ receivers = [c \in Channels |-> "none"]
    /\ queryQueue = [c \in Channels |-> <<>>]
    /\ placed = [c \in Channels |-> <<>>]
    /\ requests = <<>>
    /\ responses = <<>>

----------------------------------------------------------------------------
(* RuntimeHostBuilder::build -> RuntimeHost::new                           *)

\* a panic unwinds RuntimeHost::new: the channel ends created at line 86 and
\* the module holding event_sink are dropped, no host is returned
Panic(h) ==
    /\ hostState' = [hostState EXCEPT ![h] = "panicked"]
    /\ output' = [output EXCEPT ![h] = None]
    /\ stream' = [stream EXCEPT ![h] = "dropped"]
    /\ senderAlive' = [senderAlive EXCEPT ![h] = FALSE]
    /\ building' = 0
    /\ pc' = "idle"

\* lines 49-58 and 77-120: the channel, the mapping location of the first
\* data set (unwrap), the module, the host value
Build(h, def) ==
    /\ building = 0
    /\ hostState[h] = "none"
    /\ \A g \in HostSlots : g < h => hostState[g] /= "none"
    /\ config' = [config EXCEPT ![h] = def]
    /\ IF First(def.datasets) = None
       THEN Panic(h)
       ELSE /\ hostState' = [hostState EXCEPT ![h] = "constructing"]
            /\ output' = [output EXCEPT ![h] = Some("receiver")]
            /\ stream' = [stream EXCEPT ![h] = "host"]
            /\ senderAlive' = [senderAlive EXCEPT ![h] = TRUE]
            /\ building' = h
            /\ pc' = "prepare"
    /\ UNCHANGED <<serverVars, takeLog, invocations, streamEnded, queue, parked, written,
                   consumed, subscriptions, uuidCount, adapterVars>>

\* lines 130-162: the first data set (expect), its address (expect), one
\* subscription per event handler
SubscribeToEvents ==
    /\ building /= 0
    /\ pc = "prepare"
    /\ LET h == building
           first == First(config[h].datasets)
       IN IF first = None
          THEN /\ Panic(h)
               /\ UNCHANGED <<subscriptions, uuidCount>>
          ELSE LET dataset == first[1]
                   parsed == ParseContractAddress(dataset.address)
               IN IF ~parsed.ok
                  THEN /\ Panic(h)
                       /\ UNCHANGED <<subscriptions, uuidCount>>
                  ELSE /\ subscriptions' =
                            PrepareSubscriptions(dataset.event_handlers,
                                                 parsed.address, uuidCount)
                       /\ uuidCount' = uuidCount + Len(dataset.event_handlers)
                       /\ pc' = "subscribe"
                       /\ UNCHANGED <<hostState, output, stream, senderAlive,
                                      building>>
    /\ UNCHANGED <<serverVars, config, takeLog, invocations, streamEnded, queue, parked,
                   written, consumed, adapterVars>>

\* lines 165-167 and 173-175: one turn of the loop starts; the adapter's Mutex
\* is locked, and the unwrap panics if the Mutex is poisoned
LockWatcher ==
    /\ building /= 0
    /\ pc = "subscribe"
    /\ subscriptions /= <<>>
    /\ watcherLock \in {"free", "poisoned"}
    /\ IF watcherLock = "poisoned"
       THEN /\ Panic(building)
            /\ subscriptions' = <<>>
            /\ UNCHANGED watcherLock
       ELSE /\ watcherLock' = "new"
            /\ pc' = "locked"
            /\ UNCHANGED <<hostState, output, stream, senderAlive, building,
                           subscriptions>>
    /\ UNCHANGED <<serverVars, config, takeLog, invocations, streamEnded, queue, parked,
                   written, consumed, uuidCount, registered, registeredBy,
                   spawned, inbound, handledLog, chainClock>>

\* lines 176-183: the adapter registers the subscription and returns its
\* stream, the guard is dropped, the stream's for_each task is spawned
SubscribeToEvent ==
    /\ building /= 0
    /\ pc = "locked"
    /\ registered' = AdapterSubscribe(registered, Head(subscriptions))
    /\ registeredBy' = Append(registeredBy, building)
    /\ watcherLock' = GuardAfterStatement(watcherLock)
    /\ spawned' = spawned \cup {Len(registered) + 1}
    /\ subscriptions' = Tail(subscriptions)
    /\ pc' = "subscribe"
    /\ UNCHANGED <<serverVars, hostVars, chanVars, building, uuidCount, inbound,
                   handledLog, chainClock>>

\* line 176 when the adapter fails the registration: subscribe_to_event
\* returns the stream itself, not a Result, so the failure is a panic inside
\* the call; it poisons the Mutex and unwinds RuntimeHost::new, and the
\* subscriptions not yet registered are dropped with the Vec
SubscribeToEventFails ==
    /\ building /= 0
    /\ pc = "locked"
    /\ Panic(building)
    /\ watcherLock' = "poisoned"
    /\ subscriptions' = <<>>
    /\ UNCHANGED <<serverVars, config, takeLog, invocations, streamEnded, queue, parked,
                   written, consumed, uuidCount, registered, registeredBy,
                   spawned, inbound, handledLog, chainClock>>

\* line 123: the host is returned to the caller of build()
BuildReturn ==
    /\ building /= 0
    /\ pc = "subscribe"
    /\ subscriptions = <<>>
    /\ hostState' = [hostState EXCEPT ![building] = "alive"]
    /\ building' = 0
    /\ pc' = "idle"
    /\ UNCHANGED <<serverVars, config, output, takeLog, invocations, chanVars,
                   subscriptions, uuidCount, adapterVars>>

----------------------------------------------------------------------------
(* EventProducer::take_event_stream, lines 193-195                         *)

\* a take that empties the output of every host, as if the receiver were
\* kept in one place shared by the hosts
TakeEventStreamOfAll(h) ==
    /\ hostState[h] = "alive"
    /\ Len(takeLog[h]) < MaxTakes
    /\ output' = [g \in HostSlots |-> None]
    /\ takeLog' = [takeLog EXCEPT ![h] = Append(@, output[h])]
    /\ stream' = [stream EXCEPT ![h] =
                      IF output[h] /= None THEN "consumer" ELSE @]
    /\ UNCHANGED <<serverVars, hostState, config, invocations, streamEnded, senderAlive,
                   queue, parked, written, consumed, buildVars, adapterVars>>

TakeEventStream(h) ==
    /\ hostState[h] = "alive"
    /\ Len(takeLog[h]) < MaxTakes
    /\ LET t == OptionTake(output[h])
       IN /\ output' = [output EXCEPT ![h] = t.rest]
          /\ takeLog' = [takeLog EXCEPT ![h] = Append(@, t.result)]
          /\ stream' = [stream EXCEPT ![h] =
                            IF t.result /= None THEN "consumer" ELSE @]
    /\ UNCHANGED <<serverVars, hostState, config, invocations, streamEnded, senderAlive,
                   queue, parked, written, consumed, buildVars, adapterVars>>

\* the host value goes out of scope; RuntimeHost has no Drop impl (lines
\* 61-71): its fields are dropped (the module with event_sink, output), the
\* adapter is not told and the spawned tasks keep their streams
DropHost(h) ==
    /\ hostState[h] = "alive"
    /\ hostState' = [hostState EXCEPT ![h] = "dropped"]
    /\ output' = [output EXCEPT ![h] = None]
    /\ stream' = [stream EXCEPT ![h] = IF @ = "host" THEN "dropped" ELSE @]
    /\ senderAlive' = [senderAlive EXCEPT ![h] = FALSE]
    /\ UNCHANGED <<serverVars, config, takeLog, invocations, streamEnded, queue, parked,
                   written, consumed, buildVars, adapterVars>>

----------------------------------------------------------------------------
(* The chain adapter and the subscription tasks                            *)

\* the adapter puts a chain event on the stream of a registered subscription
ChainDeliver(r, decodable) ==
    /\ r \in 1..Len(registered)
    /\ chainClock < MaxChainEvents
    /\ chainClock' = chainClock + 1
    /\ inbound' = [inbound EXCEPT ![r] =
                      Append(@, [block |-> chainClock + 1,
                                 decodable |-> decodable])]
    /\ UNCHANGED <<serverVars, hostVars, chanVars, buildVars, registered, registeredBy,
                   spawned, handledLog, watcherLock>>

\* lines 180-183: the task takes the next event of its stream and runs the
\* closure on it
HandleEvent(r) ==
    /\ r \in spawned
    /\ inbound[r] /= <<>>
    /\ LET event == Head(inbound[r])
           h == registeredBy[r]
       IN /\ handledLog' = [handledLog EXCEPT ![r] = Append(@, event)]
          /\ invocations' = [invocations EXCEPT ![h] =
                                HandlerClosure(@, r, event)]
    /\ inbound' = [inbound EXCEPT ![r] = Tail(@)]
    /\ UNCHANGED <<serverVars, hostState, config, output, takeLog, chanVars, buildVars,
                   registered, registeredBy, spawned, chainClock, watcherLock>>

----------------------------------------------------------------------------
(* The consumer of the outbound stream                                     *)

\* the consumer drops the Receiver it took
ConsumerDrop(h) ==
    /\ stream[h] = "consumer"
    /\ stream' = [stream EXCEPT ![h] = "dropped"]
    /\ UNCHANGED <<serverVars, hostVars, streamEnded, senderAlive, queue, parked, written,
                   consumed, buildVars, adapterVars>>

\* the consumer polls an empty channel whose sender is gone: end of stream
ConsumerSeesEnd(h) ==
    /\ stream[h] = "consumer"
    /\ queue[h] = <<>>
    /\ ~senderAlive[h]
    /\ ~streamEnded[h]
    /\ streamEnded' = [streamEnded EXCEPT ![h] = TRUE]
    /\ UNCHANGED <<serverVars, hostVars, stream, senderAlive, queue, parked, written,
                   consumed, buildVars, adapterVars>>

\* the consumer reads the next pending event
ConsumerRead(h) ==
    /\ stream[h] = "consumer"
    /\ queue[h] /= <<>>
    /\ LET n == ReceiverNext(queue[h])
       IN /\ queue' = [queue EXCEPT ![h] = n.queue]
          /\ consumed' = [consumed EXCEPT ![h] = Append(@, n.item)]
    /\ parked' = [parked EXCEPT ![h] = FALSE]
    /\ UNCHANGED <<serverVars, hostVars, stream, streamEnded, senderAlive, written,
                   buildVars, adapterVars>>

----------------------------------------------------------------------------
(* The module's writes to event_sink.  module.rs is not among the sources: *)
(* the module is the only holder of the Sender (line 109), and SpecSink     *)
(* lets it write at any time, which covers every way it can use the Sender. *)

HostEvents == {"EntitySet", "EntityRemoved"}

EmitChoices(n) == IF n < MaxVariedEmits THEN HostEvents ELSE {"EntitySet"}

\* the module sends one RuntimeHostEvent through the Sender it was given at
\* line 109; a parked sender waits, a closed channel takes nothing
ModuleEmit(h, ev) ==
    /\ hostState[h] = "alive"
    /\ senderAlive[h]
    /\ stream[h] \in {"host", "consumer"}
    /\ ~parked[h]
    /\ Len(written[h]) < OutputBuffer + 1 + ExtraEmits
    /\ ev \in EmitChoices(Len(written[h]))
    /\ LET s == SenderSend(queue[h], ev)
       IN /\ queue' = [queue EXCEPT ![h] = s.queue]
          /\ parked' = [parked EXCEPT ![h] = s.parked]
    /\ written' = [written EXCEPT ![h] = Append(@, ev)]
    /\ UNCHANGED <<serverVars, hostVars, stream, streamEnded, senderAlive, consumed,
                   buildVars, adapterVars>>

----------------------------------------------------------------------------
(* The program as the sources give it: the closure of a subscription task  *)
(* only logs, the module is never invoked and nothing writes to            *)
(* event_sink.                                                             *)

Next ==
    \/ \E h \in Hosts, def \in DataSourceDefinitions : Build(h, def)
    \/ SubscribeToEvents
    \/ LockWatcher
    \/ SubscribeToEvent
    \/ SubscribeToEventFails
    \/ BuildReturn
    \/ \E h \in Hosts : TakeEventStream(h)
    \/ \E h \in Hosts : DropHost(h)
    \/ \E r \in Regs, d \in BOOLEAN : ChainDeliver(r, d)
    \/ \E r \in Regs : HandleEvent(r)
    \/ \E h \in Hosts : ConsumerDrop(h)
    \/ \E h \in Hosts : ConsumerSeesEnd(h)

Spec == Init /\ [][Next]_vars

(* One host whose module writes to its event_sink.                         *)

NextSink ==
    \/ Build(1, SinkDefinition)
    \/ SubscribeToEvents
    \/ LockWatcher
    \/ SubscribeToEvent
    \/ BuildReturn
    \/ TakeEventStream(1)
    \/ DropHost(1)
    \/ \E ev \in HostEvents : ModuleEmit(1, ev)
    \/ ConsumerRead(1)
    \/ ConsumerDrop(1)
    \/ ConsumerSeesEnd(1)

SpecSink == Init /\ [][NextSink]_vars

----------------------------------------------------------------------------
(* Helpers of the properties                                               *)

\* the registrations host h made, in the order it made them
RegsOf(h) ==
    SelectSeq([i \in 1..Len(registered) |-> i],
              LAMBDA r : registeredBy[r] = h)

\* the chain events the module of r's host was invoked with on behalf of r
InvokedFor(r) ==
    LET s == SelectSeq(invocations[registeredBy[r]], LAMBDA v : v.reg = r)
    IN [i \in 1..Len(s) |-> s[i].event]

Built(h) == hostState[h] /= "none"

BadAddress(h) ==
    /\ Built(h)
    /\ config[h].datasets /= <<>>
    /\ ~AddressFromStr(config[h].datasets[1].address).ok

----------------------------------------------------------------------------
(* Properties                                                              *)

\* C1: on every host the first take_event_stream() call returns Some and
\* every later call returns None, whatever became of the stream handed out.
C1_TakeOnce ==
    \A h \in Hosts : \A i \in 1..Len(takeLog[h]) :
        /\ i = 1 => takeLog[h][i] /= None
        /\ i > 1 => takeLog[h][i] = None

\* three calls on a host whose stream the consumer has already dropped
C1_Witness ==
    \E h \in Hosts : Len(takeLog[h]) >= 3 /\ stream[h] = "dropped"

\* C2: every chain event a subscription task has handled was passed to the
\* module in exactly one invocation.
C2_EveryEventInvoked ==
    \A r \in 1..Len(registered) : \A i \in 1..Len(handledLog[r]) :
        Cardinality({k \in 1..Len(invocations[registeredBy[r]]) :
            invocations[registeredBy[r]][k] =
                [reg |-> r, event |-> handledLog[r][i]]}) = 1

\* C3: the module invocations made for one subscription are the chain events
\* that subscription handled, in the same order.
C3_InvocationsInChainOrder ==
    \A r \in 1..Len(registered) : InvokedFor(r) = handledLog[r]

C5_NoDropDupReorder ==
    \A h \in Hosts : written[h] = consumed[h] \o queue[h]

\* the producer waits on a full channel after the consumer has read an event
\* that differs from the one now at the head of the channel
C5_Witness ==
    \E h \in Hosts :
        /\ parked[h]
        /\ Len(consumed[h]) >= 1
        /\ consumed[h][1] /= queue[h][1]

\* C6: a build() for a definition without data sets produces no host and
\* registers nothing with the chain adapter.
C6_EmptyDataSourcesFail ==
    \A h \in Hosts :
        Built(h) /\ config[h].datasets = <<>> =>
            /\ hostState[h] = "panicked"
            /\ output[h] = None
            /\ RegsOf(h) = <<>>

C6_Witness ==
    \E h \in Hosts :
        Built(h) /\ config[h].datasets = <<>> /\ hostState[h] = "panicked"

\* C7: a host whose first data set has an unparseable contract address is
\* never returned, and no subscription of it is registered and no task of it
\* spawned, whatever handlers it declares.
C7_BadAddressNoPartialState ==
    \A h \in Hosts :
        BadAddress(h) =>
            /\ hostState[h] \in {"constructing", "panicked"}
            /\ RegsOf(h) = <<>>
            /\ \A r \in spawned : registeredBy[r] /= h

\* construction was given up on a bad address with two handlers declared
C7_Witness ==
    \E h \in Hosts :
        /\ BadAddress(h)
        /\ hostState[h] = "panicked"
        /\ Len(config[h].datasets[1].event_handlers) = 2

\* C8: once RuntimeHost::new has returned, the adapter holds one subscription
\* per declared handler of the first data set, in declaration order, with the
\* parsed address, the handler's signature and the range from 0 with no end;
\* all subscription ids differ.
C8_OneSubscriptionPerHandler ==
    /\ \A h \in Hosts :
          hostState[h] \in {"alive", "dropped"} =>
              LET hs == config[h].datasets[1].event_handlers
                  rs == RegsOf(h)
              IN /\ Len(rs) = Len(hs)
                 /\ \A i \in 1..Len(rs) :
                       /\ registered[rs[i]].address =
                            AddressFromStr(config[h].datasets[1].address).address
                       /\ registered[rs[i]].event_signature = hs[i]
                       /\ registered[rs[i]].range = [from |-> Some(0), to |-> None]
                       /\ rs[i] \in spawned
    /\ \A r1, r2 \in 1..Len(registered) :
          r1 /= r2 =>
              registered[r1].subscription_id /= registered[r2].subscription_id

\* a returned host that declared the same signature twice
C8_Witness ==
    \E h \in Hosts :
        /\ hostState[h] = "alive"
        /\ config[h].datasets[1].event_handlers = <<"Transfer", "Transfer">>
        /\ Len(RegsOf(h)) = 2

\* C9: every chain event handled after an event whose arguments cannot be
\* decoded, on the same or another subscription of the host, is dispatched to
\* the module.
C9_DispatchContinuesAfterFailure ==
    \A r1, r2 \in 1..Len(registered) :
        \A i \in 1..Len(handledLog[r1]), j \in 1..Len(handledLog[r2]) :
            /\ registeredBy[r1] = registeredBy[r2]
            /\ ~handledLog[r1][i].decodable
            /\ handledLog[r2][j].block > handledLog[r1][i].block
            => \E k \in 1..Len(InvokedFor(r2)) :
                  InvokedFor(r2)[k] = handledLog[r2][j]

\* C10: after a host is torn down no chain event is delivered to or handled
\* by the tasks of its subscriptions.
C10_NoEventsAfterTeardown ==
    [][\A r \in 1..Len(registered) :
          hostState[registeredBy[r]] = "dropped" =>
              /\ inbound'[r] = inbound[r]
              /\ handledLog'[r] = handledLog[r]]_vars

\* C11: a returned host whose data set declares no event handler has no
\* subscription at the adapter, and while it is alive its stream, once taken,
\* has not ended and has yielded nothing.
C11_ZeroHandlersQuietStream ==
    \A h \in Hosts :
        /\ hostState[h] = "alive"
        /\ config[h].datasets[1].event_handlers = <<>>
        => /\ RegsOf(h) = <<>>
           /\ stream[h] = "consumer" =>
                 /\ senderAlive[h]
                 /\ ~streamEnded[h]
                 /\ queue[h] = <<>>
                 /\ consumed[h] = <<>>

\* a live host without handlers whose stream the consumer holds
C11_Witness ==
    \E h \in Hosts :
        /\ hostState[h] = "alive"
        /\ config[h].datasets[1].event_handlers = <<>>
        /\ stream[h] = "consumer"

C14_FailureFatalToOneSubscriptionOnly ==
    \A h \in Hosts :
        /\ Built(h)
        /\ config[h].datasets /= <<>>
        /\ AddressFromStr(config[h].datasets[1].address).ok
        /\ building /= h
        => /\ hostState[h] \in {"alive", "dropped"}
           /\ Len(RegsOf(h)) >= Len(config[h].datasets[1].event_handlers) - 1

----------------------------------------------------------------------------
(* Independent hosts: the builder builds one host after the other from the *)
(* same definition; each module writes to its own event_sink.              *)

\* the module of the first host may fill its channel, the others write
\* MaxPairEmits events
PairEmitLimit(h) ==
    IF h = 1 THEN OutputBuffer + 1 + ExtraEmits ELSE MaxPairEmits

NextPair ==
    \/ \E h \in HostSlots : Build(h, SinkDefinition)
    \/ SubscribeToEvents
    \/ LockWatcher
    \/ SubscribeToEvent
    \/ BuildReturn
    \/ \E h \in HostSlots : TakeEventStream(h)
    \/ \E h \in HostSlots : DropHost(h)
    \/ \E h \in HostSlots :
          Len(written[h]) < PairEmitLimit(h) /\ ModuleEmit(h, "EntitySet")
    \/ \E h \in HostSlots :
          Len(consumed[h]) < MaxPairReads /\ ConsumerRead(h)
    \/ \E h \in HostSlots : ConsumerDrop(h)
    \/ \E h \in HostSlots : ConsumerSeesEnd(h)

SpecPair == Init /\ [][NextPair]_vars

\* what a host owns of its outbound channel and of its stream
OutboundOf(h) ==
    <<output[h], takeLog[h], stream[h], streamEnded[h], senderAlive[h],
      queue[h], parked[h], written[h], consumed[h]>>

\* C15: a step that changes the stream availability or the outbound channel
\* of one host (a take, an emission, a read, a drop) leaves those of every
\* other host as they were.
C15_HostsShareNoOutboundState ==
    [][\A h \in HostSlots :
          OutboundOf(h)' /= OutboundOf(h) =>
              \A g \in HostSlots \ {h} : OutboundOf(g)' = OutboundOf(g)]_vars

\* one host's stream was taken, its channel filled until the Sender parked
\* and the stream dropped, while another live host still has its stream and
\* an event pending
C15_Witness ==
    \E h, g \in HostSlots :
        /\ h /= g
        /\ takeLog[h] /= <<>>
        /\ parked[h]
        /\ stream[h] = "dropped"
        /\ hostState[g] = "alive"
        /\ output[g] /= None
        /\ queue[g] /= <<>>
        /\ ~parked[g]

\* C16: the host neither deduplicates nor alters what the module emits: when
\* the module has written the same EntitySet twice in a row, the stream
\* yields (has yielded, or holds pending) two EntitySet events at the same
\* two positions, one after the other.
C16_NoDeduplication ==
    \A h \in Hosts :
        LET yielded == consumed[h] \o queue[h]
        IN \A i \in 1..(Len(written[h]) - 1) :
               /\ written[h][i] = "EntitySet"
               /\ written[h][i + 1] = "EntitySet"
               => /\ Len(yielded) >= i + 1
                  /\ yielded[i] = "EntitySet"
                  /\ yielded[i + 1] = "EntitySet"

\* the module wrote EntitySet twice in a row and the consumer has read both
C16_Witness ==
    \E h \in Hosts :
        /\ Len(consumed[h]) >= 2
        /\ written[h][1] = "EntitySet"
        /\ written[h][2] = "EntitySet"
        /\ consumed[h][1] = "EntitySet"
        /\ consumed[h][2] = "EntitySet"

----------------------------------------------------------------------------
(* The mock query server, src/thegraph/src/mock/server.rs.  Init is the    *)
(* server as MockGraphQLServer::new returns it: query_sink is None.  The   *)
(* query executor, which reads the query stream and settles the one-shot   *)
(* of each Query, the caller that runs the server task, and the HTTP       *)
(* clients are outside the sources; they may act at any time.              *)

Methods == {"GET", "POST"}
Paths == {"/", "/graphql"}
QueryResults == {"resultA", "resultB"}

\* a query_stream() that creates a channel on every call
QueryStreamAlways(sink, fresh) ==
    [result |-> "Ok", stream |-> Some(fresh), sink |-> Some(fresh)]

\* lines 190-197: the match on self.query_sink; fresh is the channel that
\* channel(100) would create
QueryStreamMatch(sink, fresh) ==
    IF sink /= None
    THEN [result |-> "AlreadyCreated", stream |-> None, sink |-> sink]
    ELSE [result |-> "Ok", stream |-> Some(fresh), sink |-> Some(fresh)]

\* a router that sends every POST to query handling
RouteAnyPost(method, path) ==
    IF method = "POST" THEN "query" ELSE "not_found"

\* lines 120-126: the match on (method, path)
Route(method, path) ==
    IF method = "POST" /\ path = "/" THEN "query" ELSE "not_found"

\* lines 103-109
HandleNotFound == [status |-> 404, body |-> <<"text", "Not found">>]

\* format!("{:?}", result) and format!("{}", e)
FormatDebug(v) == <<"Debug", v>>
FormatDisplay(e) == <<"Display", e>>

\* a response future that answers 200 whatever the result
GraphQLResponseAlwaysOk(result) ==
    [status |-> 200, body |-> FormatDebug(result.value)]

\* lines 36-58: GraphQLResponse::poll
GraphQLResponsePoll(result) ==
    IF result.ok
    THEN [status |-> 200, body |-> FormatDebug(result.value)]
    ELSE [status |-> 500, body |-> FormatDisplay(result.value)]

\* lines 96-97: what the one-shot Receiver resolves to; a dropped Sender
\* gives Canceled, converted by GraphQLServerError::from
ReceiverResult(req) ==
    IF req.oneshot = "value"
    THEN [ok |-> TRUE, value |-> req.result]
    ELSE [ok |-> FALSE, value |-> "Canceled"]

\* Server::bind(&addr) at line 216 binds the listener at once and panics
\* when the address cannot be bound
ServerBind(bound) == IF bound THEN "panic" ELSE "bound"

\* the listener on 0.0.0.0:8000 lives as long as a task that owns it
PortBound == \E t \in 1..Len(tasks) : tasks[t].state \in {"created", "running"}

ChannelsCreated == {c \in Channels : receivers[c] /= "none"}

CountIn(seq, x) == Cardinality({i \in 1..Len(seq) : seq[i] = x})

\* lines 188-198
QueryStream ==
    /\ Len(queryStreamLog) < MaxQueryStreams
    /\ LET fresh == Cardinality(ChannelsCreated) + 1
           m == QueryStreamMatch(query_sink, fresh)
       IN /\ query_sink' = m.sink
          /\ queryStreamLog' =
                 Append(queryStreamLog,
                        [result |-> m.result, stream |-> m.stream,
                         queries |-> Len(placed[1])])
          /\ receivers' = IF m.result = "Ok"
                          THEN [receivers EXCEPT ![fresh] = "executor"]
                          ELSE receivers
    /\ UNCHANGED <<hostSideVars, serveLog, tasks, queryQueue, placed,
                   requests, responses>>

\* lines 200-226
Serve ==
    /\ Len(serveLog) < MaxServes
    /\ IF query_sink = None
       THEN /\ serveLog' = Append(serveLog, [result |-> "InternalError",
                                              sink |-> query_sink, task |-> 0])
            /\ UNCHANGED tasks
       ELSE IF ServerBind(PortBound) = "panic"
            THEN /\ serveLog' = Append(serveLog, [result |-> "panic",
                                                   sink |-> query_sink,
                                                   task |-> 0])
                 /\ UNCHANGED tasks
            ELSE /\ tasks' = Append(tasks, [sink |-> query_sink[1],
                                            state |-> "created"])
                 /\ serveLog' = Append(serveLog, [result |-> "Ok",
                                                   sink |-> query_sink,
                                                   task |-> Len(tasks) + 1])
    /\ UNCHANGED <<hostSideVars, query_sink, queryStreamLog, receivers,
                   queryQueue, placed, requests, responses>>

\* the caller puts the task serve() returned on the executor
RunTask(t) ==
    /\ t \in 1..Len(tasks)
    /\ tasks[t].state = "created"
    /\ tasks' = [tasks EXCEPT ![t].state = "running"]
    /\ UNCHANGED <<hostSideVars, query_sink, queryStreamLog, serveLog,
                   receivers, queryQueue, placed, requests, responses>>

\* the task is dropped and its listener closed
DropTask(t) ==
    /\ t \in 1..Len(tasks)
    /\ tasks[t].state \in {"created", "running"}
    /\ tasks' = [tasks EXCEPT ![t].state = "dropped"]
    /\ UNCHANGED <<hostSideVars, query_sink, queryStreamLog, serveLog,
                   receivers, queryQueue, placed, requests, responses>>

\* lines 119-127 with handle_graphql_query (74-100) up to the spawn, or
\* handle_not_found (103-110): a service of a running task receives a
\* request
Call(method, path) ==
    /\ Len(requests) < MaxRequests
    /\ \E t \in 1..Len(tasks) :
          /\ tasks[t].state = "running"
          /\ IF Route(method, path) = "query"
             THEN /\ requests' =
                         Append(requests,
                                [method |-> method, path |-> path,
                                 sink |-> tasks[t].sink, stage |-> "sending",
                                 oneshot |-> "open", result |-> "none"])
                  /\ UNCHANGED responses
             ELSE /\ requests' =
                         Append(requests,
                                [method |-> method, path |-> path,
                                 sink |-> tasks[t].sink, stage |-> "not_found",
                                 oneshot |-> "none", result |-> "none"])
                  /\ responses' =
                         Append(responses,
                                [request |-> Len(requests) + 1,
                                 status |-> HandleNotFound.status,
                                 body |-> HandleNotFound.body])
    /\ UNCHANGED <<hostSideVars, query_sink, queryStreamLog, serveLog, tasks,
                   receivers, queryQueue, placed>>

\* lines 82-91: the spawned send.  A clone of the Sender has a slot of its
\* own, so the Query is accepted whenever the Receiver exists; when the
\* Receiver is gone the send fails, the task panics and the Query is
\* dropped with its result_sender
SendTask(q) ==
    /\ q \in 1..Len(requests)
    /\ requests[q].stage = "sending"
    /\ LET c == requests[q].sink
       IN IF receivers[c] = "executor"
          THEN /\ queryQueue' = [queryQueue EXCEPT ![c] = Append(@, q)]
               /\ placed' = [placed EXCEPT ![c] = Append(@, q)]
               /\ requests' = [requests EXCEPT ![q].stage = "queued"]
          ELSE /\ requests' = [requests EXCEPT ![q].stage = "failed",
                                               ![q].oneshot = "canceled"]
               /\ UNCHANGED <<queryQueue, placed>>
    /\ UNCHANGED <<hostSideVars, query_sink, queryStreamLog, serveLog, tasks,
                   receivers, responses>>

\* the executor reads the next Query from the stream
ExecutorTake(c) ==
    /\ receivers[c] = "executor"
    /\ queryQueue[c] /= <<>>
    /\ requests' = [requests EXCEPT ![Head(queryQueue[c])].stage = "held"]
    /\ queryQueue' = [queryQueue EXCEPT ![c] = Tail(@)]
    /\ UNCHANGED <<hostSideVars, query_sink, queryStreamLog, serveLog, tasks,
                   receivers, placed, responses>>

\* the executor sends a QueryResult through result_sender
ExecutorSend(q, v) ==
    /\ q \in 1..Len(requests)
    /\ requests[q].stage = "held"
    /\ requests' = [requests EXCEPT ![q].stage = "answered",
                                    ![q].oneshot = "value",
                                    ![q].result = v]
    /\ UNCHANGED <<hostSideVars, query_sink, queryStreamLog, serveLog, tasks,
                   receivers, queryQueue, placed, responses>>

\* the executor drops result_sender without sending
ExecutorDropSender(q) ==
    /\ q \in 1..Len(requests)
    /\ requests[q].stage = "held"
    /\ requests' = [requests EXCEPT ![q].stage = "abandoned",
                                    ![q].oneshot = "canceled"]
    /\ UNCHANGED <<hostSideVars, query_sink, queryStreamLog, serveLog, tasks,
                   receivers, queryQueue, placed, responses>>

\* the executor drops the query stream: the Queries still pending are
\* dropped with their result_sender
ExecutorDropStream(c) ==
    /\ receivers[c] = "executor"
    /\ receivers' = [receivers EXCEPT ![c] = "dropped"]
    /\ requests' =
           [q \in 1..Len(requests) |->
               IF CountIn(queryQueue[c], q) > 0
               THEN [requests[q] EXCEPT !.stage = "lost",
                                        !.oneshot = "canceled"]
               ELSE requests[q]]
    /\ queryQueue' = [queryQueue EXCEPT ![c] = <<>>]
    /\ UNCHANGED <<hostSideVars, query_sink, queryStreamLog, serveLog, tasks,
                   placed, responses>>

\* lines 95-99 and 36-58: the response future resolves once the one-shot
\* is settled
Respond(q) ==
    /\ q \in 1..Len(requests)
    /\ requests[q].oneshot \in {"value", "canceled"}
    /\ \A i \in 1..Len(responses) : responses[i].request /= q
    /\ LET r == GraphQLResponsePoll(ReceiverResult(requests[q]))
       IN responses' = Append(responses, [request |-> q, status |-> r.status,
                                          body |-> r.body])
    /\ UNCHANGED <<hostSideVars, query_sink, queryStreamLog, serveLog, tasks,
                   receivers, queryQueue, placed, requests>>

NextServer ==
    \/ QueryStream
    \/ Serve
    \/ \E t \in 1..MaxServes : RunTask(t)
    \/ \E t \in 1..MaxServes : DropTask(t)
    \/ \E method \in Methods, path \in Paths : Call(method, path)
    \/ \E q \in 1..MaxRequests : SendTask(q)
    \/ \E c \in Channels : ExecutorTake(c)
    \/ \E q \in 1..MaxRequests, v \in QueryResults : ExecutorSend(q, v)
    \/ \E q \in 1..MaxRequests : ExecutorDropSender(q)
    \/ \E c \in Channels : ExecutorDropStream(c)
    \/ \E q \in 1..MaxRequests : Respond(q)

SpecServer == Init /\ [][NextServer]_vars

\* the responses written for request q
ResponsesTo(q) == {i \in 1..Len(responses) : responses[i].request = q}

\* C17: the first query_stream() returns Ok with a stream, every later call
\* returns StreamError::AlreadyCreated and no stream; the sink stays the one
\* the first call created, so every server task writes to it and Queries
\* are placed on the first channel only.
C17_QueryStreamOnlyOnce ==
    /\ \A i \in 1..Len(queryStreamLog) :
          IF i = 1
          THEN /\ queryStreamLog[i].result = "Ok"
               /\ queryStreamLog[i].stream = Some(1)
          ELSE /\ queryStreamLog[i].result = "AlreadyCreated"
               /\ queryStreamLog[i].stream = None
    /\ queryStreamLog /= <<>> => query_sink = queryStreamLog[1].stream
    /\ \A t \in 1..Len(tasks) : Some(tasks[t].sink) = queryStreamLog[1].stream
    /\ \A c \in Channels \ {1} : placed[c] = <<>> /\ receivers[c] = "none"

\* a second call was refused and a Query reached the first stream afterwards
C17_Witness ==
    /\ Len(queryStreamLog) >= 2
    /\ queryStreamLog[2].result = "AlreadyCreated"
    /\ Len(placed[1]) > queryStreamLog[2].queries

C19_OnlyPostRootRouted ==
    \A q \in 1..Len(requests) :
        IF requests[q].method = "POST" /\ requests[q].path = "/"
        THEN /\ requests[q].stage /= "not_found"
             /\ \A i \in ResponsesTo(q) : responses[i].status /= 404
        ELSE /\ requests[q].stage = "not_found"
             /\ requests[q].oneshot = "none"
             /\ \A c \in Channels : CountIn(placed[c], q) = 0
             /\ Cardinality(ResponsesTo(q)) = 1
             /\ \A i \in ResponsesTo(q) :
                   /\ responses[i].status = 404
                   /\ responses[i].body = <<"text", "Not found">>

\* a GET / and a POST /graphql were answered 404 and a POST / put a Query
\* on the channel
C19_Witness ==
    \E q1, q2, q3 \in 1..Len(requests) :
        /\ requests[q1].method = "GET" /\ requests[q1].path = "/"
        /\ requests[q2].method = "POST" /\ requests[q2].path = "/graphql"
        /\ requests[q3].method = "POST" /\ requests[q3].path = "/"
        /\ CountIn(placed[1], q3) = 1
        /\ CountIn(placed[1], q1) = 0
        /\ CountIn(placed[1], q2) = 0

\* C20: a serve() call returns Err(InternalError) exactly when no
\* query_stream() call was made before it, and otherwise returns a server
\* task whose services write to the sink of the stream query_stream()
\* handed out.
C20_ServeErrIffNoQueryStream ==
    \A i \in 1..Len(serveLog) :
        /\ serveLog[i].result = "InternalError" <=> serveLog[i].sink = None
        /\ serveLog[i].sink /= None =>
              /\ serveLog[i].result = "Ok"
              /\ serveLog[i].task \in 1..Len(tasks)
              /\ Some(tasks[serveLog[i].task].sink) = queryStreamLog[1].stream

====
